---------------------------- MODULE Spec2Model ----------------------------
(***************************************************************************)
(* Model of the clickstream pipeline of this repository:                   *)
(*   part2-transformation/clean_and_analyze.py  (clean, dedup, sessions,   *)
(*                                               attribution, rollups)     *)
(*   part3-analysis/business_analysis.py       (business analysis)         *)
(*   part4-monitoring/monitoring.py            (drift monitor)             *)
(* Each script is a straight-line batch job; every numbered step of the     *)
(* script is one action, and pc / mpc record the step reached.             *)
(*                                                                         *)
(* Conventions                                                             *)
(*  - a nullable column holds NULL (the empty tuple) or <<v>>;             *)
(*  - instants are integers in milliseconds since the epoch (UTC; the      *)
(*    database session time zone is taken to be UTC);                      *)
(*  - money amounts are integers;                                          *)
(*  - SQL leaves the order of rows that tie on ORDER BY open: every such   *)
(*    order is a possible outcome, so each sort is a nondeterministic      *)
(*    choice among the orders that respect the sort key.                   *)
(***************************************************************************)
EXTENDS Integers, Sequences, FiniteSets, TLC

VARIABLES
    pc,              \* step of the script reached
    events,          \* the `events` frame / table (a sequence of rows)
    dropped_dupes,   \* before_count - after_count of step 2.3
    sess,            \* rows of the CTE chain with_lag -> flagged -> sequenced
    sessions,        \* result rows of view analytics_sessions
    attribution,     \* result rows of view analytics_purchase_attribution
    channel_last,    \* result of analytics_channel_revenue_last_click
    channel_first,   \* result of analytics_channel_revenue_first_click
    recon,           \* the two totals of the step 4 reconciliation
    mpc,             \* monitoring.py: step of the script reached
    m_events,        \* monitoring.py: table events_enriched
    m_purchases,     \* monitoring.py: table purchases
    data_today,      \* monitoring.py: data_today
    alerts,          \* monitoring.py: alerts
    report,          \* monitoring.py: the report written to REPORT_OUT
    device_sample,   \* clean_and_analyze.py: sample query 5, revenue by device
    apc,             \* business_analysis.py: step of main reached
    a_events,        \* business_analysis.py: view events_enriched
    a_attribution,   \* business_analysis.py: view purchase_attribution, as the
                     \*   last query that read it saw it
    a_daily,         \* business_analysis.py: daily_rev
    a_channel_last,  \* business_analysis.py: ch_last
    a_channel_first, \* business_analysis.py: ch_first
    a_conversion,    \* business_analysis.py: conv_by_channel
    a_device         \* business_analysis.py: revenue_by_device

\* clean_and_analyze.py
pvars == <<pc, events, dropped_dupes, sess, sessions, attribution,
           channel_last, channel_first, recon>>

\* monitoring.py
mvars == <<mpc, m_events, m_purchases, data_today, alerts, report>>

\* business_analysis.py
avars == <<apc, a_events, a_attribution, a_daily, a_channel_last,
           a_channel_first, a_conversion, a_device>>

\* what steps 1 to 4 of clean_and_analyze.py leave alone
others == <<mvars, avars, device_sample>>

\* what monitoring.py leaves alone
nonmonitor == <<pvars, avars, device_sample>>

\* what business_analysis.py leaves alone
nonanalysis == <<pvars, mvars, device_sample>>

vars == <<pvars, others>>

---------------------------------------------------------------------------
(* Nullable values *)

NULL == <<>>

Some(v) == <<v>>

IsNull(x) == x = NULL

NotNull(x) == x # NULL

Val(x) == x[1]

\* COALESCE(x, d) for a nullable x and a plain default d
Coalesce(x, d) == IF IsNull(x) THEN d ELSE Val(x)

---------------------------------------------------------------------------
(* Bounds of the model *)

\* largest number of rows in the loaded CSV files
MaxEvents == 3

---------------------------------------------------------------------------
(* Program constants *)

SESSION_GAP_SECONDS == 1800

\* INTERVAL '7 days' of the attribution window
LOOKBACK_DAYS == 7

EVENT_NAME_REMAP(v) == IF v = "checkout_completed" THEN "purchase" ELSE v

\* the duplicate key of the data-quality report
dup_cols == <<"source_file", "timestamp", "event_name", "event_data">>

DUP_SUBSET == <<"source_file", "timestamp", "event_name", "event_data",
                "page_url", "referrer", "client_id">>

---------------------------------------------------------------------------
(* Time arithmetic *)

Seconds(s) == s * 1000

Days(d) == d * 24 * 60 * 60 * 1000

\* datediff('second', a, b): the number of second boundaries between a and b
\* (both truncated to whole seconds, then subtracted)
datediff_second(a, b) == (b \div 1000) - (a \div 1000)

---------------------------------------------------------------------------
(* Generic helpers on sequences and sets *)

Range(s) == {s[i] : i \in DOMAIN s}

RECURSIVE SumOver(_, _)
\* sum of f[x] for x in the finite set S
SumOver(S, f) ==
    IF S = {} THEN 0
    ELSE LET x == CHOOSE y \in S : TRUE
         IN  f[x] + SumOver(S \ {x}, f)

RECURSIVE SelectIdx(_, _, _)
\* the subsequence of s at the positions i >= from whose keep[i] is TRUE
SelectIdx(s, keep, from) ==
    IF from > Len(s) THEN <<>>
    ELSE (IF keep[from] THEN <<s[from]>> ELSE <<>>) \o SelectIdx(s, keep, from + 1)

SeqsUpTo(U, n) == UNION {[1..k -> U] : k \in 0..n}

\* all orders (as sequences without repetition) of the finite set S
Perms(S) == {p \in [1..Cardinality(S) -> S] : Range(p) = S}

---------------------------------------------------------------------------
(* Raw input rows (step 1: the CSV files after canonical column mapping)   *)

\* a raw timestamp string: a format and the instant it denotes
RawTs(fmt, ms) == [fmt |-> fmt, ms |-> ms]

BadTs == [fmt |-> "bad", ms |-> 0]

\* a raw event_data string: a JSON object with the keys price and quantity
\* (each possibly absent), or text that is not JSON
Payload(price, quantity) == Some([json |-> TRUE, price |-> price, quantity |-> quantity])

BadPayload == Some([json |-> FALSE, price |-> NULL, quantity |-> NULL])

\* a page URL: the values of its utm_source / utm_medium / utm_campaign query
\* parameters ("" when the parameter is absent or blank)
Url(src, med, camp) == Some([utm_source |-> src, utm_medium |-> med, utm_campaign |-> camp])

PlainUrl == Url("", "", "")

RawRow(file, ts, name, data, url, ref, client, ua) ==
    [source_file |-> file, timestamp |-> ts, event_name |-> name,
     event_data |-> data, page_url |-> url, referrer |-> ref,
     client_id |-> client, user_agent |-> ua]

\* events = pd.concat(dfs, ignore_index=True): row i gets index label i
Load(rows) == [i \in DOMAIN rows |-> [idx |-> i] @@ rows[i]]

---------------------------------------------------------------------------
(* Step 2.1: event-name clean-up and remap *)

CleanEventName(v) ==
    IF IsNull(v) \/ v = Some("") THEN NULL ELSE Some(EVENT_NAME_REMAP(Val(v)))

---------------------------------------------------------------------------
(* Step 2.3: drop exact duplicates, keep first *)

DupKey(r, subset) == [k \in DOMAIN subset |-> r[subset[k]]]

\* a mutant: each call drops only the first repeated row it meets
drop_duplicates_once(rows, subset) ==
    LET dup(i) == \E j \in 1..(i - 1) : DupKey(rows[j], subset) = DupKey(rows[i], subset)
        D == {i \in DOMAIN rows : dup(i)}
    IN  SelectIdx(rows,
                  [i \in DOMAIN rows |-> ~(i \in D /\ \A j \in D : i <= j)],
                  1)

\* DataFrame.drop_duplicates(subset, keep="first")
drop_duplicates(rows, subset) ==
    SelectIdx(rows,
              [i \in DOMAIN rows |->
                  \A j \in 1..(i - 1) : DupKey(rows[j], subset) # DupKey(rows[i], subset)],
              1)

---------------------------------------------------------------------------
(* Steps 2.4 - 2.8: parsing and derived columns *)

\* pd.to_datetime(..., utc=True, errors="coerce")
to_datetime(ts) == IF ts.fmt = "bad" THEN NULL ELSE Some(ts.ms)

safe_json_parse(s) ==
    IF IsNull(s) THEN NULL
    ELSE IF Val(s).json THEN s ELSE NULL

extract_price(ed) == IF IsNull(ed) THEN NULL ELSE Val(ed).price

get_key_quantity(ed) == IF IsNull(ed) THEN NULL ELSE Val(ed).quantity

\* Python's `a or b` on a nullable number: a unless a is None or 0.
\* The payloads of the model carry no items list, so b is None.
OrItems(a) == IF IsNull(a) \/ a = Some(0) THEN NULL ELSE a

\* pd.to_numeric(unit_price) * pd.to_numeric(quantity): null when either is
TotalOf(unit_price, quantity) ==
    IF IsNull(unit_price) \/ IsNull(quantity) THEN NULL
    ELSE Some(Val(unit_price) * Val(quantity))

\* parse_qs drops blank values: a blank or absent parameter gives None
extract_utm(url, key) ==
    IF IsNull(url) THEN NULL
    ELSE IF Val(url)[key] = "" THEN NULL ELSE Some(Val(url)[key])

Enrich(r) ==
    LET ed == safe_json_parse(r.event_data)
        quantity == OrItems(get_key_quantity(ed))
        unit_price == OrItems(extract_price(ed))
    IN  r @@ [timestamp_utc |-> to_datetime(r.timestamp),
              event_data_parsed |-> ed,
              price |-> extract_price(ed),
              quantity |-> quantity,
              total |-> TotalOf(unit_price, quantity),
              utm_source |-> extract_utm(r.page_url, "utm_source"),
              utm_medium |-> extract_utm(r.page_url, "utm_medium"),
              utm_campaign |-> extract_utm(r.page_url, "utm_campaign"),
              client_id_missing |-> IsNull(r.client_id)]

---------------------------------------------------------------------------
(* Step 3.2: view analytics_sessions *)

\* ORDER BY ... ASC puts NULL last: a sorts no later than b
TsLE(a, b) == IsNull(b) \/ (NotNull(a) /\ Val(a) <= Val(b))

Min(S) == CHOOSE x \in S : \A y \in S : x <= y

Max(S) == CHOOSE x \in S : \A y \in S : x >= y

\* partitions are laid out in the order of their first row
PartitionRank(rows, i) == Min({j \in DOMAIN rows : rows[j].client_id = rows[i].client_id})

\* the orders PARTITION BY client_id ORDER BY timestamp_utc may visit the rows
\* in: rows that tie on the timestamp come in any order
SortOrders(rows) ==
    {p \in Perms(DOMAIN rows) :
        \A k \in 1..(Len(rows) - 1) :
            \/ PartitionRank(rows, p[k]) < PartitionRank(rows, p[k + 1])
            \/ /\ rows[p[k]].client_id = rows[p[k + 1]].client_id
               /\ TsLE(rows[p[k]].timestamp_utc, rows[p[k + 1]].timestamp_utc)}

\* FROM analytics_events_enriched WHERE client_id IS NOT NULL
SessionInput(ev) ==
    SelectIdx(ev, [i \in DOMAIN ev |-> NotNull(ev[i].client_id)], 1)

\* lag(timestamp_utc) OVER (PARTITION BY client_id ORDER BY timestamp_utc),
\* the rows visited in the order p
WithLagRows(rows, p) ==
    [k \in DOMAIN rows |->
        rows[p[k]] @@
        [prev_ts |-> IF k > 1 /\ rows[p[k - 1]].client_id = rows[p[k]].client_id
                     THEN rows[p[k - 1]].timestamp_utc
                     ELSE NULL]]

\* CASE WHEN prev_ts IS NULL THEN 1
\*      WHEN datediff('second', prev_ts, timestamp_utc) > 1800 THEN 1 ELSE 0 END
\* (a NULL comparison is not true, so a NULL timestamp_utc falls to ELSE)
NewSessionFlag(prev_ts, ts) ==
    IF IsNull(prev_ts) THEN 1
    ELSE IF NotNull(ts) /\ datediff_second(Val(prev_ts), Val(ts)) > SESSION_GAP_SECONDS THEN 1
    ELSE 0

FlaggedRows(rows) ==
    [k \in DOMAIN rows |->
        rows[k] @@ [new_session_flag |-> NewSessionFlag(rows[k].prev_ts, rows[k].timestamp_utc)]]

\* sum(new_session_flag) OVER (PARTITION BY client_id ORDER BY timestamp_utc
\*   ROWS BETWEEN UNBOUNDED PRECEDING AND CURRENT ROW), rows visited in order p
SequencedRows(rows, p) ==
    [k \in DOMAIN rows |->
        rows[p[k]] @@
        [session_seq |->
            SumOver({j \in 1..k : rows[p[j]].client_id = rows[p[k]].client_id},
                    [j \in 1..k |-> rows[p[j]].new_session_flag])]]

\* min / max(timestamp_utc) OVER (PARTITION BY client_id, session_seq):
\* aggregates skip NULL and are NULL when every input is
PartitionTimes(rows, r) ==
    {Val(q.timestamp_utc) : q \in {x \in Range(rows) :
        /\ x.client_id = r.client_id
        /\ x.session_seq = r.session_seq
        /\ NotNull(x.timestamp_utc)}}

SessionRow(rows, r) ==
    LET T == PartitionTimes(rows, r)
        start == IF T = {} THEN NULL ELSE Some(Min(T))
        end == IF T = {} THEN NULL ELSE Some(Max(T))
    IN  [idx |-> r.idx,
         client_id |-> r.client_id,
         session_seq |-> r.session_seq,
         session_id |-> <<Val(r.client_id), "_session_", r.session_seq>>,
         session_start |-> start,
         session_end |-> end,
         session_duration_seconds |->
             IF T = {} THEN NULL ELSE Some(datediff_second(Min(T), Max(T))),
         timestamp_utc |-> r.timestamp_utc]

\* the final SELECT of the view: one output row per input row
SessionsSelect(rows) == {SessionRow(rows, rows[k]) : k \in DOMAIN rows}

---------------------------------------------------------------------------
(* Step 3.5: view analytics_purchase_attribution *)

\* a mutant: purchases without a client_id are left out (an inner join on
\* the identity instead of scalar subqueries)
PurchasesIdentified(ev) ==
    {i \in DOMAIN ev : ev[i].event_name = Some("purchase") /\ NotNull(ev[i].client_id)}

\* WHERE event_name = 'purchase' (positions in the events table)
Purchases(ev) == {i \in DOMAIN ev : ev[i].event_name = Some("purchase")}

\* a mutant: the revenue of part 3, COALESCE(price, total, 0.0)
RevenuePriceFirst(e) == IF NotNull(e.price) THEN Val(e.price) ELSE Coalesce(e.total, 0)

\* COALESCE(total, 0.0) AS revenue
Revenue(e) == Coalesce(e.total, 0)

\* a mutant: the window is open at its lower end
InWindowOpen(t, p) ==
    /\ NotNull(t.client_id) /\ NotNull(p.client_id) /\ t.client_id = p.client_id
    /\ NotNull(t.timestamp_utc) /\ NotNull(p.timestamp_utc)
    /\ Val(t.timestamp_utc) > Val(p.timestamp_utc) - Days(LOOKBACK_DAYS)
    /\ Val(t.timestamp_utc) <= Val(p.timestamp_utc)
    /\ NotNull(t.utm_source)

\* WHERE t.client_id = p.client_id
\*   AND t.timestamp_utc BETWEEN p.timestamp_utc - INTERVAL '7 days' AND p.timestamp_utc
\*   AND t.utm_source IS NOT NULL
\* (a comparison with NULL is not true)
InWindow(t, p) ==
    /\ NotNull(t.client_id) /\ NotNull(p.client_id) /\ t.client_id = p.client_id
    /\ NotNull(t.timestamp_utc) /\ NotNull(p.timestamp_utc)
    /\ Val(t.timestamp_utc) >= Val(p.timestamp_utc) - Days(LOOKBACK_DAYS)
    /\ Val(t.timestamp_utc) <= Val(p.timestamp_utc)
    /\ NotNull(t.utm_source)

Candidates(ev, i) == {j \in DOMAIN ev : InWindow(ev[j], ev[i])}

\* ORDER BY t.timestamp_utc ASC LIMIT 1: one of the rows with the least
\* timestamp (0 when the subquery has no row)
FirstPicks(ev, i) ==
    LET C == Candidates(ev, i)
    IN  IF C = {} THEN {0}
        ELSE {j \in C : \A k \in C : Val(ev[j].timestamp_utc) <= Val(ev[k].timestamp_utc)}

\* ORDER BY t.timestamp_utc DESC LIMIT 1
LastPicks(ev, i) ==
    LET C == Candidates(ev, i)
    IN  IF C = {} THEN {0}
        ELSE {j \in C : \A k \in C : Val(ev[j].timestamp_utc) >= Val(ev[k].timestamp_utc)}

\* the value of a scalar subquery: the column of the picked row, or NULL
Scalar(ev, j, col) == IF j = 0 THEN NULL ELSE ev[j][col]

\* the rows the view can give for the purchase at position i: each of the six
\* subqueries is evaluated on its own
AttributionRows(ev, i) ==
    {ev[i] @@ [revenue |-> Revenue(ev[i]),
               first_utm_source |-> Scalar(ev, fs, "utm_source"),
               first_utm_medium |-> Scalar(ev, fm, "utm_medium"),
               first_utm_campaign |-> Scalar(ev, fc, "utm_campaign"),
               last_utm_source |-> Scalar(ev, ls, "utm_source"),
               last_utm_medium |-> Scalar(ev, lm, "utm_medium"),
               last_utm_campaign |-> Scalar(ev, lc, "utm_campaign")] :
        fs \in FirstPicks(ev, i), fm \in FirstPicks(ev, i), fc \in FirstPicks(ev, i),
        ls \in LastPicks(ev, i), lm \in LastPicks(ev, i), lc \in LastPicks(ev, i)}

RECURSIVE AttributionFrom(_, _)
\* the results the view can give for the purchases at positions >= from
AttributionFrom(ev, from) ==
    IF from > Len(ev) THEN {<<>>}
    ELSE IF from \in Purchases(ev)
         THEN {<<r>> \o rest : r \in AttributionRows(ev, from),
                               rest \in AttributionFrom(ev, from + 1)}
         ELSE AttributionFrom(ev, from + 1)

PurchaseAttribution(ev) == AttributionFrom(ev, 1)

---------------------------------------------------------------------------
(* Step 3.6: channel rollups *)

\* a mutant: the COALESCE is missing, a NULL touch is a group of its own
ChannelNoCoalesce(r, col) == IF IsNull(r[col]) THEN "(null)" ELSE Val(r[col])

\* COALESCE(<touch>_utm_source, 'direct') of one attribution row
Channel(r, col) == Coalesce(r[col], "direct")

\* GROUP BY 1 with SUM(revenue), COUNT( * ); members is the group itself (the
\* idx of the purchases aggregated into the row), not an output column
ChannelGroups(attr, col) ==
    {[channel |-> c,
      revenue |-> SumOver({k \in DOMAIN attr : Channel(attr[k], col) = c},
                          [k \in DOMAIN attr |-> attr[k].revenue]),
      purchases |-> Cardinality({k \in DOMAIN attr : Channel(attr[k], col) = c}),
      members |-> {attr[k].idx : k \in {n \in DOMAIN attr : Channel(attr[n], col) = c}}] :
        c \in {Channel(attr[k], col) : k \in DOMAIN attr}}

\* ORDER BY revenue DESC: rows of equal revenue come in any order
ChannelRollup(attr, col) ==
    LET G == ChannelGroups(attr, col)
    IN  {s \in Perms(G) : \A k \in 1..(Cardinality(G) - 1) : s[k].revenue >= s[k + 1].revenue}

---------------------------------------------------------------------------
(* Step 4: reconciliation *)

\* SELECT COALESCE(SUM(COALESCE(total, 0.0)),0) ... WHERE event_name='purchase'
RawRevenue(ev) ==
    SumOver(Purchases(ev), [i \in DOMAIN ev |-> Coalesce(ev[i].total, 0)])

\* SELECT COALESCE(SUM(revenue),0) FROM analytics_purchase_attribution
AttributedRevenue(attr) ==
    SumOver(DOMAIN attr, [k \in DOMAIN attr |-> attr[k].revenue])

---------------------------------------------------------------------------
(* Inputs: the rows the CSV files may hold *)

\* the purchase instant of the attribution inputs
T0 == Days(8)

Iso(ms) == RawTs("iso", ms)

View(client, ms, url) ==
    RawRow("f1", Iso(ms), Some("page_viewed"), NULL, url, NULL, client, NULL)

Purchase(client, ms, url, data) ==
    RawRow("f1", Iso(ms), Some("purchase"), data, url, NULL, client, NULL)

\* touches around the 7-day window of purchases at T0
AttributionInputs ==
    { View(Some("U1"), T0 - Days(LOOKBACK_DAYS), Url("ads", "cpc", "c1")),
      View(Some("U1"), T0 - Days(LOOKBACK_DAYS), Url("mail", "email", "c1")),
      View(Some("U1"), T0 - Days(LOOKBACK_DAYS) - Seconds(1), Url("old", "cpc", "c0")),
      View(Some("U1"), T0 + Seconds(1), Url("late", "cpc", "c2")),
      View(Some("U2"), T0 - Seconds(1), Url("other", "cpc", "c3")),
      View(NULL, T0 - Seconds(1), Url("anon", "cpc", "c4")),
      RawRow("f1", BadTs, Some("page_viewed"), NULL, Url("lost", "cpc", "c6"),
             NULL, Some("U1"), NULL),
      Purchase(Some("U1"), T0, PlainUrl, Payload(Some(10), Some(2))),
      Purchase(Some("U1"), T0, Url("self", "cpc", "c7"), NULL),
      Purchase(NULL, T0, PlainUrl, Payload(Some(5), Some(1))) }

\* one identity's events around the 1800-second gap
SessionInputs ==
    { View(Some("U1"), 0, PlainUrl),
      View(Some("U1"), 500, PlainUrl),
      View(Some("U1"), Seconds(SESSION_GAP_SECONDS), PlainUrl),
      View(Some("U1"), Seconds(SESSION_GAP_SECONDS) + 1, PlainUrl),
      View(Some("U1"), Seconds(SESSION_GAP_SECONDS + 1), PlainUrl),
      Purchase(Some("U1"), Seconds(SESSION_GAP_SECONDS + 1), PlainUrl, Payload(Some(10), Some(1))),
      RawRow("f1", BadTs, Some("page_viewed"), NULL, PlainUrl, NULL, Some("U1"), NULL),
      RawRow("f1", BadTs, Some("purchase"), NULL, PlainUrl, NULL, Some("U1"), NULL),
      View(Some("U2"), Seconds(SESSION_GAP_SECONDS), PlainUrl),
      View(NULL, 0, PlainUrl) }

\* rows that differ from one purchase row in a single column
DedupInputs ==
    LET base == Purchase(Some("U1"), T0, PlainUrl, Payload(Some(10), Some(1)))
    IN  { base,
          [base EXCEPT !.client_id = Some("U2")],
          [base EXCEPT !.client_id = NULL],
          [base EXCEPT !.page_url = Url("ads", "cpc", "c1")],
          [base EXCEPT !.referrer = Some("https://r.example/")],
          [base EXCEPT !.event_name = Some("checkout_completed")],
          [base EXCEPT !.event_name = Some("")],
          [base EXCEPT !.source_file = "f2"],
          [base EXCEPT !.timestamp = Iso(T0 + Seconds(1))],
          [base EXCEPT !.event_data = BadPayload] }

---------------------------------------------------------------------------
(* The script as a state machine *)

\* monitoring.py is not running
MonitorOff ==
    /\ mpc = "off"
    /\ m_events = <<>>
    /\ m_purchases = <<>>
    /\ data_today = NULL
    /\ alerts = <<>>
    /\ report = NULL

\* business_analysis.py is not running
AnalysisOff ==
    /\ apc = "off"
    /\ a_events = <<>>
    /\ a_attribution = <<>>
    /\ a_daily = <<>>
    /\ a_channel_last = <<>>
    /\ a_channel_first = <<>>
    /\ a_conversion = <<>>
    /\ a_device = <<>>

InitWith(U) ==
    /\ MonitorOff
    /\ AnalysisOff
    /\ device_sample = <<>>
    /\ pc = "loaded"
    /\ \E rows \in SeqsUpTo(U, MaxEvents) : events = Load(rows)
    /\ dropped_dupes = 0
    /\ sess = <<>>
    /\ sessions = {}
    /\ attribution = <<>>
    /\ channel_last = <<>>
    /\ channel_first = <<>>
    /\ recon = [raw_revenue |-> 0, attributed_revenue |-> 0]

Init == InitWith(AttributionInputs)

InitSessions == InitWith(SessionInputs)

InitDedup == InitWith(DedupInputs)

\* step 2.1
Remap ==
    /\ pc = "loaded"
    /\ events' = [i \in DOMAIN events |->
                     [events[i] EXCEPT !.event_name = CleanEventName(@)]]
    /\ pc' = "remapped"
    /\ UNCHANGED others
    /\ UNCHANGED <<dropped_dupes, sess, sessions, attribution, channel_last,
                   channel_first, recon>>

\* step 2.3
DropDuplicates ==
    /\ pc = "remapped"
    /\ events' = drop_duplicates(events, DUP_SUBSET)
    /\ dropped_dupes' = Len(events) - Len(events')
    /\ pc' = "deduped"
    /\ UNCHANGED others
    /\ UNCHANGED <<sess, sessions, attribution, channel_last, channel_first, recon>>

\* steps 2.4 - 2.8, and the load of the parquet file into the events table
Clean ==
    /\ pc = "deduped"
    /\ events' = [i \in DOMAIN events |-> Enrich(events[i])]
    /\ pc' = "cleaned"
    /\ UNCHANGED others
    /\ UNCHANGED <<dropped_dupes, sess, sessions, attribution, channel_last,
                   channel_first, recon>>

\* view analytics_sessions, CTE with_lag
WithLag ==
    /\ pc = "cleaned"
    /\ \E p \in SortOrders(SessionInput(events)) :
          sess' = WithLagRows(SessionInput(events), p)
    /\ pc' = "with_lag"
    /\ UNCHANGED others
    /\ UNCHANGED <<events, dropped_dupes, sessions, attribution, channel_last,
                   channel_first, recon>>

\* CTE flagged
Flagged ==
    /\ pc = "with_lag"
    /\ sess' = FlaggedRows(sess)
    /\ pc' = "flagged"
    /\ UNCHANGED others
    /\ UNCHANGED <<events, dropped_dupes, sessions, attribution, channel_last,
                   channel_first, recon>>

\* CTE sequenced: a window of its own, so a sort of its own
Sequenced ==
    /\ pc = "flagged"
    /\ \E p \in SortOrders(sess) : sess' = SequencedRows(sess, p)
    /\ pc' = "sequenced"
    /\ UNCHANGED others
    /\ UNCHANGED <<events, dropped_dupes, sessions, attribution, channel_last,
                   channel_first, recon>>

\* the final SELECT of analytics_sessions
SessionsView ==
    /\ pc = "sequenced"
    /\ sessions' = SessionsSelect(sess)
    /\ sess' = <<>>
    /\ pc' = "sessions"
    /\ UNCHANGED others
    /\ UNCHANGED <<events, dropped_dupes, attribution, channel_last,
                   channel_first, recon>>

\* view analytics_purchase_attribution (as exported to parquet)
Attribute ==
    /\ pc = "sessions"
    /\ attribution' \in PurchaseAttribution(events)
    /\ pc' = "attributed"
    /\ UNCHANGED others
    /\ UNCHANGED <<events, dropped_dupes, sess, sessions, channel_last,
                   channel_first, recon>>

\* view analytics_channel_revenue_last_click: a view is evaluated anew by
\* every query that reads it
ChannelLast ==
    /\ pc = "attributed"
    /\ \E attr \in PurchaseAttribution(events) :
          channel_last' \in ChannelRollup(attr, "last_utm_source")
    /\ pc' = "last_click"
    /\ UNCHANGED others
    /\ UNCHANGED <<events, dropped_dupes, sess, sessions, attribution,
                   channel_first, recon>>

\* view analytics_channel_revenue_first_click
ChannelFirst ==
    /\ pc = "last_click"
    /\ \E attr \in PurchaseAttribution(events) :
          channel_first' \in ChannelRollup(attr, "first_utm_source")
    /\ pc' = "first_click"
    /\ UNCHANGED others
    /\ UNCHANGED <<events, dropped_dupes, sess, sessions, attribution,
                   channel_last, recon>>

\* step 4
Reconcile ==
    /\ pc = "first_click"
    /\ \E attr \in PurchaseAttribution(events) :
          recon' = [raw_revenue |-> RawRevenue(events),
                    attributed_revenue |-> AttributedRevenue(attr)]
    /\ pc' = "done"
    /\ UNCHANGED others
    /\ UNCHANGED <<events, dropped_dupes, sess, sessions, attribution,
                   channel_last, channel_first>>

Next ==
    \/ Remap
    \/ DropDuplicates
    \/ Clean
    \/ WithLag
    \/ Flagged
    \/ Sequenced
    \/ SessionsView
    \/ Attribute
    \/ ChannelLast
    \/ ChannelFirst
    \/ Reconcile

\* inputs around the attribution window
Spec == Init /\ [][Next]_vars

\* inputs around the session gap
SpecSessions == InitSessions /\ [][Next]_vars

\* inputs that differ in one column of the duplicate key
SpecDedup == InitDedup /\ [][Next]_vars

---------------------------------------------------------------------------
(* Properties *)

AttributionDone == pc \in {"attributed", "last_click", "first_click", "done"}

SessionsDone == pc \in {"sessions", "attributed", "last_click", "first_click", "done"}

IsPurchase(e) == e.event_name = Some("purchase")

\* the events of r's identity that carry a utm_source and lie in the seven
\* days up to and including r's instant
TouchesInWindow(r) ==
    {j \in DOMAIN events :
        /\ NotNull(r.client_id) /\ events[j].client_id = r.client_id
        /\ NotNull(events[j].utm_source)
        /\ NotNull(r.timestamp_utc) /\ NotNull(events[j].timestamp_utc)
        /\ Val(events[j].timestamp_utc) + 7 * 86400000 >= Val(r.timestamp_utc)
        /\ Val(events[j].timestamp_utc) <= Val(r.timestamp_utc)}

TouchFieldsNull(r) ==
    /\ IsNull(r.first_utm_source) /\ IsNull(r.first_utm_medium) /\ IsNull(r.first_utm_campaign)
    /\ IsNull(r.last_utm_source) /\ IsNull(r.last_utm_medium) /\ IsNull(r.last_utm_campaign)

\* C1: once the attribution view is evaluated, the sum of revenue over its
\* rows equals the sum of coalesce(total, 0) over the deduplicated purchase
\* events, and the two totals of the reconciliation step agree with it.
C1_RevenueReconciles ==
    LET raw == SumOver({i \in DOMAIN events : IsPurchase(events[i])},
                       [i \in DOMAIN events |->
                           IF IsNull(events[i].total) THEN 0 ELSE Val(events[i].total)])
    IN  /\ AttributionDone =>
              SumOver(DOMAIN attribution,
                      [k \in DOMAIN attribution |-> attribution[k].revenue]) = raw
        /\ pc = "done" => recon.attributed_revenue = raw /\ recon.raw_revenue = raw

\* a run with a purchase of null total and a purchase of positive total
C1_Witness ==
    /\ pc = "done"
    /\ \E k \in DOMAIN attribution : IsNull(attribution[k].total)
    /\ \E k \in DOMAIN attribution :
          NotNull(attribution[k].total) /\ NotNull(attribution[k].price)
          /\ Val(attribution[k].total) # Val(attribution[k].price)
    /\ recon.attributed_revenue > 0

\* C2: every deduplicated event named purchase has exactly one row in the
\* attribution output, every other event has none, and the row's revenue is
\* the event's total, or 0 when the total is null.
C2_OneRowPerPurchase ==
    AttributionDone =>
        \A i \in DOMAIN events :
            LET rows == {k \in DOMAIN attribution : attribution[k].idx = events[i].idx}
            IN  /\ Cardinality(rows) = IF IsPurchase(events[i]) THEN 1 ELSE 0
                /\ \A k \in rows :
                      attribution[k].revenue =
                          IF IsNull(events[i].total) THEN 0 ELSE Val(events[i].total)

\* a purchase without identity and a purchase with two touch candidates are
\* both in the output
C2_Witness ==
    /\ AttributionDone
    /\ \E k \in DOMAIN attribution : IsNull(attribution[k].client_id)
    /\ \E k \in DOMAIN attribution : Cardinality(TouchesInWindow(attribution[k])) >= 2

\* C3: the touches a purchase can be attributed to are exactly the events of
\* its identity with a utm_source at P - 7 days <= T <= P: with no such event
\* the touch fields are null, otherwise first and last source are sources of
\* such events (never of an event one second too old, later than P, or of
\* another identity).
C3_WindowBoundary ==
    AttributionDone =>
        \A k \in DOMAIN attribution :
            LET r == attribution[k]
                S == {events[j].utm_source : j \in TouchesInWindow(r)}
            IN  IF S = {} THEN IsNull(r.first_utm_source) /\ IsNull(r.last_utm_source)
                ELSE r.first_utm_source \in S /\ r.last_utm_source \in S

\* a purchase attributed to the touch exactly 7 days before it while a touch
\* of the same identity one second older is in the table
C3_Witness ==
    /\ AttributionDone
    /\ \E k \in DOMAIN attribution :
          /\ attribution[k].first_utm_source = Some("ads")
          /\ \E j \in DOMAIN events :
                /\ events[j].client_id = attribution[k].client_id
                /\ events[j].utm_source = Some("old")
                /\ Val(events[j].timestamp_utc) + 7 * 86400000 + 1000
                       = Val(attribution[k].timestamp_utc)
          /\ \E j \in DOMAIN events :
                /\ events[j].utm_source = Some("ads")
                /\ Val(events[j].timestamp_utc) + 7 * 86400000
                       = Val(attribution[k].timestamp_utc)

\* C4: for a purchase with candidates the first-touch fields are those of the
\* candidate of least timestamp, the earliest ingested among ties, and the
\* last-touch fields those of the candidate of greatest timestamp, the
\* latest ingested among ties.
C4_TouchTieBreak ==
    AttributionDone =>
        \A k \in DOMAIN attribution :
            LET r == attribution[k]
                C == TouchesInWindow(r)
                ts(j) == Val(events[j].timestamp_utc)
                first == CHOOSE j \in C : \A n \in C :
                            ts(j) < ts(n) \/ (ts(j) = ts(n) /\ events[j].idx <= events[n].idx)
                last == CHOOSE j \in C : \A n \in C :
                            ts(j) > ts(n) \/ (ts(j) = ts(n) /\ events[j].idx >= events[n].idx)
            IN  C # {} =>
                  /\ r.first_utm_source = events[first].utm_source
                  /\ r.first_utm_medium = events[first].utm_medium
                  /\ r.first_utm_campaign = events[first].utm_campaign
                  /\ r.last_utm_source = events[last].utm_source
                  /\ r.last_utm_medium = events[last].utm_medium
                  /\ r.last_utm_campaign = events[last].utm_campaign

\* C5: a purchase with no touch in its window has its six touch fields null
\* and is aggregated, revenue and count, into the row of channel 'direct' of
\* the last-click and of the first-click rollup.
C5_DirectFallback ==
    LET direct(rollup, r) ==
            \E n \in DOMAIN rollup :
                /\ rollup[n].channel = "direct"
                /\ r.idx \in rollup[n].members
                /\ rollup[n].purchases = Cardinality(rollup[n].members)
                /\ rollup[n].revenue =
                      SumOver({m \in DOMAIN attribution :
                                  attribution[m].idx \in rollup[n].members},
                              [m \in DOMAIN attribution |-> attribution[m].revenue])
    IN  \A k \in DOMAIN attribution :
            TouchesInWindow(attribution[k]) = {} =>
                /\ AttributionDone => TouchFieldsNull(attribution[k])
                /\ pc \in {"last_click", "first_click", "done"} =>
                      direct(channel_last, attribution[k])
                /\ pc \in {"first_click", "done"} => direct(channel_first, attribution[k])

\* a paying purchase without touches next to an attributed purchase: the
\* rollups hold a 'direct' row and another channel
C5_Witness ==
    /\ pc = "done"
    /\ \E k \in DOMAIN attribution :
          TouchesInWindow(attribution[k]) = {} /\ attribution[k].revenue > 0
    /\ \E n \in DOMAIN channel_last : channel_last[n].channel # "direct"
    /\ \E n \in DOMAIN channel_first :
          channel_first[n].channel = "direct" /\ channel_first[n].revenue > 0

\* C6: of two consecutive events of one identity, both with a parsed
\* timestamp, the later one starts a new session if and only if the elapsed
\* time between them exceeds 1800 seconds.
C6_GapBoundary ==
    pc = "flagged" =>
        \A k \in DOMAIN sess :
            NotNull(sess[k].prev_ts) /\ NotNull(sess[k].timestamp_utc) =>
                (sess[k].new_session_flag = 1
                    <=> Val(sess[k].timestamp_utc) - Val(sess[k].prev_ts) > 1800 * 1000)

\* C7: every event with an identity is in exactly one session of that
\* identity, and of two sessions of one identity the one of higher sequence
\* starts strictly after the other ends.
C7_SessionsPartition ==
    SessionsDone =>
        /\ \A i \in DOMAIN events :
              NotNull(events[i].client_id) =>
                  /\ Cardinality({s \in sessions : s.idx = events[i].idx}) = 1
                  /\ \A s \in sessions :
                        s.idx = events[i].idx => s.client_id = events[i].client_id
        /\ \A a, b \in sessions :
              a.client_id = b.client_id /\ a.session_seq < b.session_seq =>
                  /\ NotNull(a.session_end) /\ NotNull(b.session_start)
                  /\ Val(a.session_end) < Val(b.session_start)

\* C8: an event whose timestamp did not parse is in no session, and stays in
\* the enriched event table.
C8_UnparsedNotInSessions ==
    SessionsDone =>
        \A i \in DOMAIN events :
            IsNull(events[i].timestamp_utc) =>
                \A s \in sessions : s.idx # events[i].idx

\* C9: after deduplication no two rows agree on (source_file, raw timestamp,
\* event_name, raw payload), whatever their page_url, referrer or client_id.
C9_FourColumnKey ==
    pc = "deduped" =>
        \A i, j \in DOMAIN events :
            i < j =>
                <<events[i].source_file, events[i].timestamp,
                  events[i].event_name, events[i].event_data>>
                # <<events[j].source_file, events[j].timestamp,
                    events[j].event_name, events[j].event_data>>

\* C10: deduplicating the deduplicated rows again returns them unchanged, in
\* the same order, with a removed count of 0.
C10_DedupIdempotent ==
    pc \notin {"loaded", "remapped"} =>
        /\ drop_duplicates(events, DUP_SUBSET) = events
        /\ Len(events) - Len(drop_duplicates(events, DUP_SUBSET)) = 0

\* deduplication removed a row and left several
C10_Witness ==
    /\ pc = "deduped"
    /\ dropped_dupes > 0
    /\ Len(events) >= 2

---------------------------------------------------------------------------
(* part4-monitoring/monitoring.py: the drift monitor                       *)
(* The monitor is a second straight-line script.  It reads the two parquet *)
(* files clean_and_analyze.py exports and writes one JSON report.  Rates   *)
(* and thresholds are exact fractions num / den.                           *)

MaxRows == 5

MaxDays == 8

BASELINE_DAYS == 7

MAX_NULL_CLIENT_RATE == [num |-> 20, den |-> 100]

MAX_DUP_RATE == [num |-> 1, den |-> 1000]

MAX_JSON_ERROR_RATE == [num |-> 1, den |-> 100]

MAX_DIRECT_SHARE == [num |-> 80, den |-> 100]

MAX_REV_DROP == [num |-> 40, den |-> 100]

\* n / d > q for a threshold q and a denominator d other than 0
RatGT(n, d, q) ==
    IF d > 0 THEN n * q.den > q.num * d ELSE n * q.den < q.num * d

\* DATE(timestamp_utc): the day number of an instant, NULL for NULL
DateOf(ts) == IF IsNull(ts) THEN NULL ELSE Some(Val(ts) \div Days(1))

\* SUM(f[i]) over the rows at the positions I: NULL when no value is non-null
SqlSum(I, f) ==
    LET nn == {i \in I : NotNull(f[i])}
    IN  IF nn = {} THEN NULL
        ELSE Some(SumOver(nn, [i \in nn |-> Val(f[i])]))

\* SELECT MAX(DATE(timestamp_utc)) FROM events_enriched
MaxDate(ev) ==
    LET ds == {Val(ev[i].timestamp_utc) \div Days(1) :
                  i \in {j \in DOMAIN ev : NotNull(ev[j].timestamp_utc)}}
    IN  IF ds = {} THEN NULL ELSE Some(Max(ds))

Alert(severity, message) == [severity |-> severity, message |-> message]

\* if c: alerts.append(a)
AppendIf(c, a, al) == IF c THEN Append(al, a) ELSE al

row_count(ev) == Len(ev)

purchase_count(ev) == Cardinality({i \in DOMAIN ev : ev[i].event_name = Some("purchase")})

\* AVG(CASE WHEN client_id IS NULL THEN 1 ELSE 0 END)
null_client_rate(ev) ==
    [num |-> Cardinality({i \in DOMAIN ev : IsNull(ev[i].client_id)}),
     den |-> Len(ev)]

\* GROUP BY source_file, timestamp_utc, event_name, event_data
MonitorKey(r) == <<r.source_file, r.timestamp_utc, r.event_name, r.event_data>>

\* COUNT(*) FILTER (WHERE cnt > 1) * 1.0 / COUNT(*) over the groups
dup_rate(ev) ==
    LET keys == {MonitorKey(ev[i]) : i \in DOMAIN ev}
        cnt(k) == Cardinality({i \in DOMAIN ev : MonitorKey(ev[i]) = k})
    IN  [num |-> Cardinality({k \in keys : cnt(k) > 1}),
         den |-> Cardinality(keys)]

\* AVG(CASE WHEN event_data IS NOT NULL AND event_data_parsed IS NULL ...)
json_error_rate(ev) ==
    [num |-> Cardinality({i \in DOMAIN ev :
                 NotNull(ev[i].event_data) /\ IsNull(ev[i].event_data_parsed)}),
     den |-> Len(ev)]

\* SELECT DATE(timestamp_utc) AS d, SUM(total) AS revenue ... WHERE
\* event_name='purchase' GROUP BY 1 ORDER BY 1 DESC (the NULL date last)
DailyRev(ev) ==
    LET P == {i \in DOMAIN ev : ev[i].event_name = Some("purchase")}
        D == {DateOf(ev[i].timestamp_utc) : i \in P}
        n == Cardinality(D)
        rank(d) == IF IsNull(d) THEN n
                   ELSE 1 + Cardinality({x \in D : NotNull(x) /\ Val(x) > Val(d)})
    IN  [k \in 1..n |->
            LET d == CHOOSE x \in D : rank(x) = k
            IN  [d |-> d,
                 revenue |-> SqlSum({i \in P : DateOf(ev[i].timestamp_utc) = d},
                                    [i \in P |-> ev[i].total])]]

\* if len(daily_rev) > BASELINE_DAYS: the check runs
DropCheckRuns(dr) == Len(dr) > BASELINE_DAYS

\* daily_rev.iloc[1:BASELINE_DAYS+1]: the rows after the first, at most 7
BaselineRows(dr) == {k \in DOMAIN dr : 2 <= k /\ k <= BASELINE_DAYS + 1}

\* a mutant: a drop of exactly the threshold alerts too
DropReaches(dr, B, threshold) ==
    LET latest == dr[1].revenue
        nn == {k \in B : NotNull(dr[k].revenue)}
        S == SumOver(nn, [k \in nn |-> Val(dr[k].revenue)])
        c == Cardinality(nn)
    IN  /\ c > 0
        /\ S > 0
        /\ NotNull(latest)
        /\ (S - c * Val(latest)) * threshold.den >= threshold.num * S

\* baseline > 0 and (baseline - latest) / baseline > threshold, where
\* baseline is the mean of the non-NaN revenues of the rows B (NaN when there
\* is none) and every comparison with NaN is False
DropExceeds(dr, B, threshold) ==
    LET latest == dr[1].revenue
        nn == {k \in B : NotNull(dr[k].revenue)}
        S == SumOver(nn, [k \in nn |-> Val(dr[k].revenue)])
        c == Cardinality(nn)
    IN  /\ c > 0
        /\ S > 0
        /\ NotNull(latest)
        /\ RatGT(S - c * Val(latest), S, threshold)

RevenueDropAlert(dr) ==
    DropCheckRuns(dr) /\ DropExceeds(dr, BaselineRows(dr), MAX_REV_DROP)

\* direct_share and direct_share > MAX_DIRECT_SHARE: the outcomes the
\* condition can have.  SUM over no row is NULL (None is falsy); a zero
\* SUM(revenue) divides by zero, which gives NULL or an IEEE infinity / NaN
\* depending on the DuckDB build.
DirectShareAlerts(p) ==
    LET all == DOMAIN p
        dir == {i \in all : Channel(p[i], "last_utm_source") = "direct"}
        revenue == [i \in all |-> Some(p[i].revenue)]
        direct == SqlSum(dir, revenue)
        total == SqlSum(all, revenue)
    IN  IF IsNull(direct) \/ IsNull(total) THEN {FALSE}
        ELSE IF Val(total) = 0
             THEN (IF Val(direct) > 0 THEN {FALSE, TRUE} ELSE {FALSE})
        ELSE {Val(direct) # 0 /\ RatGT(Val(direct), Val(total), MAX_DIRECT_SHARE)}

HasCritical(al) == \E k \in DOMAIN al : al[k].severity = "CRITICAL"

\* a mutant: any alert fails the run
StatusAnyAlert(al) == IF Len(al) > 0 THEN "FAIL" ELSE "PASS"

Status(al) == IF HasCritical(al) THEN "FAIL" ELSE "PASS"

\* lines 25-45: load the two files, find the monitoring date
MonLoad ==
    /\ mpc = "start"
    /\ m_events' = events
    /\ m_purchases' = attribution
    /\ data_today' = MaxDate(events)
    /\ mpc' = IF IsNull(MaxDate(events)) THEN "raised" ELSE "health"
    /\ UNCHANGED <<alerts, report, nonmonitor>>

\* lines 47-61: pipeline health
PipelineHealth ==
    /\ mpc = "health"
    /\ alerts' = AppendIf(purchase_count(m_events) = 0,
                          Alert("CRITICAL", "No purchases recorded today"),
                 AppendIf(row_count(m_events) = 0,
                          Alert("CRITICAL", "No events ingested today"),
                          <<>>))
    /\ mpc' = "null_client"
    /\ UNCHANGED <<m_events, m_purchases, data_today, report, nonmonitor>>

\* lines 66-71
NullClientCheck ==
    /\ mpc = "null_client"
    /\ alerts' = AppendIf(RatGT(null_client_rate(m_events).num,
                                null_client_rate(m_events).den,
                                MAX_NULL_CLIENT_RATE),
                          Alert("WARN", "High null client_id rate"), alerts)
    /\ mpc' = "dup"
    /\ UNCHANGED <<m_events, m_purchases, data_today, report, nonmonitor>>

\* a mutant: the check is an elif of the one before it
DupCheckUnlessWarned ==
    /\ mpc = "dup"
    /\ alerts' = AppendIf(Len(alerts) = 0 /\
                          RatGT(dup_rate(m_events).num, dup_rate(m_events).den,
                                MAX_DUP_RATE),
                          Alert("WARN", "Duplicate rate high"), alerts)
    /\ mpc' = "json"
    /\ UNCHANGED <<m_events, m_purchases, data_today, report, nonmonitor>>

\* lines 73-84
DupCheck ==
    /\ mpc = "dup"
    /\ alerts' = AppendIf(RatGT(dup_rate(m_events).num, dup_rate(m_events).den,
                                MAX_DUP_RATE),
                          Alert("WARN", "Duplicate rate high"), alerts)
    /\ mpc' = "json"
    /\ UNCHANGED <<m_events, m_purchases, data_today, report, nonmonitor>>

\* lines 86-92
JsonCheck ==
    /\ mpc = "json"
    /\ alerts' = AppendIf(RatGT(json_error_rate(m_events).num,
                                json_error_rate(m_events).den,
                                MAX_JSON_ERROR_RATE),
                          Alert("WARN", "JSON parse error rate high"), alerts)
    /\ mpc' = "revenue"
    /\ UNCHANGED <<m_events, m_purchases, data_today, report, nonmonitor>>

\* lines 97-115
RevenueDropCheck ==
    /\ mpc = "revenue"
    /\ alerts' = AppendIf(RevenueDropAlert(DailyRev(m_events)),
                          Alert("CRITICAL", "Revenue drop detected"), alerts)
    /\ mpc' = "direct"
    /\ UNCHANGED <<m_events, m_purchases, data_today, report, nonmonitor>>

\* lines 117-125
DirectShareCheck ==
    /\ mpc = "direct"
    /\ \E b \in DirectShareAlerts(m_purchases) :
           alerts' = AppendIf(b, Alert("WARN", "Direct traffic unusually high"), alerts)
    /\ mpc' = "report"
    /\ UNCHANGED <<m_events, m_purchases, data_today, report, nonmonitor>>

\* lines 130-140
WriteReport ==
    /\ mpc = "report"
    /\ report' = Some([date |-> Val(data_today),
                       alerts |-> alerts,
                       status |-> Status(alerts)])
    /\ mpc' = "complete"
    /\ UNCHANGED <<m_events, m_purchases, data_today, alerts, nonmonitor>>

MonitorNext ==
    \/ MonLoad
    \/ PipelineHealth
    \/ NullClientCheck
    \/ DupCheck
    \/ JsonCheck
    \/ RevenueDropCheck
    \/ DirectShareCheck
    \/ WriteReport

---------------------------------------------------------------------------
(* Inputs of the monitor: the files a run of clean_and_analyze.py leaves   *)

\* the frame after steps 1 to 2.8
CleanedEvents(rows) ==
    LET loaded == Load(rows)
        remapped == [i \in DOMAIN loaded |->
                        [loaded[i] EXCEPT !.event_name = CleanEventName(@)]]
        deduped == drop_duplicates(remapped, DUP_SUBSET)
    IN  [i \in DOMAIN deduped |-> Enrich(deduped[i])]

\* clean_and_analyze.py has run on the rows and exited: events_enriched.parquet
\* holds the cleaned events, purchase_attribution.parquet the attribution view
PipelineExited(rows) ==
    /\ pc = "exited"
    /\ events = CleanedEvents(rows)
    /\ dropped_dupes = Len(rows) - Len(events)
    /\ sess = <<>>
    /\ sessions = {}
    /\ attribution \in PurchaseAttribution(events)
    /\ channel_last = <<>>
    /\ channel_first = <<>>
    /\ recon = [raw_revenue |-> 0, attributed_revenue |-> 0]

MonitorStart ==
    /\ mpc = "start"
    /\ m_events = <<>>
    /\ m_purchases = <<>>
    /\ data_today = NULL
    /\ alerts = <<>>
    /\ report = NULL

\* rows for the integrity checks, in file order: a purchase, the same row
\* again, the same purchase under another identity and page, two rows without
\* identity, one with a broken payload, one with a broken timestamp, a
\* purchase reached through an ad, a view on a later day
IntegrityInputs ==
    << Purchase(Some("U1"), T0, PlainUrl, Payload(Some(10), Some(1))),
       Purchase(Some("U1"), T0, PlainUrl, Payload(Some(10), Some(1))),
       Purchase(Some("U2"), T0, Url("ads", "cpc", "c1"), Payload(Some(10), Some(1))),
       View(NULL, T0, PlainUrl),
       View(NULL, T0 + Seconds(1), PlainUrl),
       RawRow("f1", Iso(T0 + Seconds(1)), Some("page_viewed"), BadPayload,
              PlainUrl, NULL, Some("U1"), NULL),
       RawRow("f1", BadTs, Some("page_viewed"), NULL, PlainUrl, NULL, Some("U1"), NULL),
       Purchase(Some("U2"), T0 + Seconds(2), Url("ads", "cpc", "c1"), Payload(Some(40), Some(1))),
       View(Some("U2"), T0 + Days(1), PlainUrl) >>

\* the files of at most MaxRows of these rows
IntegrityFiles ==
    {SelectIdx(IntegrityInputs, keep, 1) :
        keep \in {k \in [DOMAIN IntegrityInputs -> BOOLEAN] :
                     Cardinality({i \in DOMAIN k : k[i]}) <= MaxRows}}

\* the purchases of one day, by the day's revenue
DayPurchases(d, v) ==
    IF v = "20"
    THEN << Purchase(Some("U1"), Days(d), PlainUrl, Payload(Some(10), Some(1))),
            Purchase(Some("U1"), Days(d) + Seconds(1), PlainUrl, Payload(Some(10), Some(1))) >>
    ELSE << Purchase(Some("U1"), Days(d), PlainUrl,
                     CASE v = "100" -> Payload(Some(100), Some(1))
                       [] v = "60" -> Payload(Some(30), Some(2))
                       [] v = "-100" -> Payload(Some(-100), Some(1))
                       [] OTHER -> NULL) >>

RECURSIVE DaysFrom(_, _)
\* the purchases of the days d..Len(g), day k with revenue g[k]
DaysFrom(g, d) ==
    IF d > Len(g) THEN <<>> ELSE DayPurchases(d, g[d]) \o DaysFrom(g, d + 1)

OlderRevenues == {"100", "-100"}

PreviousRevenues == {"100", "-100", "none"}

LatestRevenues == {"100", "60", "20", "none"}

\* up to MaxDays consecutive days of purchases: the revenue of the last day,
\* of the day before it, and of the older days
DriftInputs ==
    {<<>>} \cup {DaysFrom(<<v>>, 1) : v \in LatestRevenues} \cup
    UNION {{DaysFrom(g \o <<u, v>>, 1) : g \in [1..(n - 2) -> OlderRevenues],
                                        u \in PreviousRevenues,
                                        v \in LatestRevenues} : n \in 2..MaxDays}

InitMonitor ==
    /\ AnalysisOff
    /\ device_sample = <<>>
    /\ MonitorStart
    /\ \E rows \in IntegrityFiles : PipelineExited(rows)

InitDrift ==
    /\ AnalysisOff
    /\ device_sample = <<>>
    /\ MonitorStart
    /\ \E rows \in DriftInputs : PipelineExited(rows)

SpecMonitor == InitMonitor /\ [][MonitorNext]_vars

SpecDrift == InitDrift /\ [][MonitorNext]_vars

MonitorReported == mpc = "complete"

---------------------------------------------------------------------------
(* Properties of the monitor *)

\* the report holds an alert of this severity and message
HasAlert(r, severity, message) ==
    \E k \in DOMAIN r.alerts : r.alerts[k] = Alert(severity, message)

\* C11: in every report written, status is FAIL exactly when at least one
\* alert of the report is CRITICAL.
C11_FailIffCritical ==
    NotNull(report) =>
        (Val(report).status = "FAIL" <=>
            \E k \in DOMAIN Val(report).alerts :
                Val(report).alerts[k].severity = "CRITICAL")

\* a report with a CRITICAL alert and a WARN alert
C11_Witness ==
    /\ MonitorReported
    /\ Val(report).status = "FAIL"
    /\ HasAlert(Val(report), "CRITICAL", "No purchases recorded today")
    /\ HasAlert(Val(report), "WARN", "High null client_id rate")

\* C12: the status of a report is FAIL when an alert is CRITICAL, PASS only
\* when the report has no alert, and WARN when it has alerts none of which is
\* CRITICAL.
C12_ThreeValuedStatus ==
    NotNull(report) =>
        Val(report).status =
            (IF \E k \in DOMAIN Val(report).alerts :
                    Val(report).alerts[k].severity = "CRITICAL"
             THEN "FAIL"
             ELSE IF Len(Val(report).alerts) = 0 THEN "PASS"
             ELSE "WARN")

\* C13: a run that has ended has written a report, and when the events table
\* has no row with a parsed timestamp that report is FAIL with a CRITICAL
\* alert.
C13_AlwaysReports ==
    mpc \in {"raised", "complete"} =>
        /\ NotNull(report)
        /\ IsNull(MaxDate(m_events)) =>
               /\ Val(report).status = "FAIL"
               /\ \E k \in DOMAIN Val(report).alerts :
                      Val(report).alerts[k].severity = "CRITICAL"

\* the first n rows of the daily revenue all have a revenue
DailySumsKnown(dr, n) == \A k \in 1..n : NotNull(dr[k].revenue)

\* the sum of the revenues of the rows 2..n+1
SumOfPreceding(dr, n) ==
    SumOver(2..(n + 1), [k \in 2..(n + 1) |-> Val(dr[k].revenue)])

\* C14: when at least 8 days of purchase revenue exist (each with a known
\* sum), the report has the CRITICAL revenue-drop alert exactly when the mean
\* of the 7 days before the most recent day is above 0 and
\* (mean - latest) / mean is strictly above 0.40.  With the mean S / 7 and
\* S > 0 the ratio is (S - 7 * latest) / S.
C14_RevenueDrop ==
    LET dr == DailyRev(m_events)
        S == SumOfPreceding(dr, BASELINE_DAYS)
        latest == Val(dr[1].revenue)
    IN  (NotNull(report) /\ Len(dr) >= BASELINE_DAYS + 1
                         /\ DailySumsKnown(dr, BASELINE_DAYS + 1)) =>
            (HasAlert(Val(report), "CRITICAL", "Revenue drop detected") <=>
                (S > 0 /\ 100 * (S - BASELINE_DAYS * latest) > 40 * S))

\* seven days of 100 and then a day of 20: the alert is raised
C14_Witness ==
    LET dr == DailyRev(m_events)
    IN  /\ MonitorReported
        /\ Len(dr) = BASELINE_DAYS + 1
        /\ \A k \in 2..(BASELINE_DAYS + 1) : dr[k].revenue = Some(100)
        /\ dr[1].revenue = Some(20)
        /\ HasAlert(Val(report), "CRITICAL", "Revenue drop detected")

\* the messages of the checks of monitoring.py
CheckMessages ==
    {"No events ingested today", "No purchases recorded today",
     "High null client_id rate", "Duplicate rate high",
     "JSON parse error rate high", "Revenue drop detected",
     "Direct traffic unusually high"}

\* the report says that a check was skipped: a field besides date, alerts and
\* status, or an entry that is not an alert of one of the checks
ReportRecordsSkip(r) ==
    \/ DOMAIN r # {"date", "alerts", "status"}
    \/ \E k \in DOMAIN r.alerts :
           \/ r.alerts[k].severity \notin {"WARN", "CRITICAL"}
           \/ r.alerts[k].message \notin CheckMessages

\* C15: with fewer than 8 days of purchase revenue the report has no
\* revenue-drop alert and records that the check was skipped.
C15_SkipRecorded ==
    (NotNull(report) /\ Len(DailyRev(m_events)) < BASELINE_DAYS + 1) =>
        /\ ~HasAlert(Val(report), "CRITICAL", "Revenue drop detected")
        /\ ReportRecordsSkip(Val(report))

\* C16: the report has the WARN alert of the null-identity check, of the
\* duplicate check and of the payload check exactly when the rate of that
\* check is strictly above its threshold, whatever the other checks found.
C16_RateChecksIndependent ==
    LET above(rate, q) == rate.num * q.den > q.num * rate.den
    IN  NotNull(report) =>
            /\ HasAlert(Val(report), "WARN", "High null client_id rate")
                   <=> above(null_client_rate(m_events), MAX_NULL_CLIENT_RATE)
            /\ HasAlert(Val(report), "WARN", "Duplicate rate high")
                   <=> above(dup_rate(m_events), MAX_DUP_RATE)
            /\ HasAlert(Val(report), "WARN", "JSON parse error rate high")
                   <=> above(json_error_rate(m_events), MAX_JSON_ERROR_RATE)

\* a report with the null-identity and the duplicate alert, without the
\* payload alert
C16_Witness ==
    /\ MonitorReported
    /\ HasAlert(Val(report), "WARN", "High null client_id rate")
    /\ HasAlert(Val(report), "WARN", "Duplicate rate high")
    /\ ~HasAlert(Val(report), "WARN", "JSON parse error rate high")

---------------------------------------------------------------------------
(* part3-analysis/business_analysis.py: the business analysis             *)
(* The script reads cleaned_events.parquet, the frame clean_and_analyze.py *)
(* saves after step 2.8.  purchase_attribution and sessions_simple are     *)
(* views: every query that reads one evaluates it anew.  The session time  *)
(* zone is UTC, so CAST(timestamp_utc AS TIMESTAMP) keeps the instant.     *)

\* ORDER BY <key> DESC over the rows G: any order in which no row comes
\* before one that GE puts strictly above it
SortedBy(G, GE(_, _)) ==
    {s \in Perms(G) : \A k \in 1..(Cardinality(G) - 1) : GE(s[k], s[k + 1])}

\* ROUND(a / b, d) as a count of 10^-d units, scale = 10^d, b > 0: half away
\* from zero
RoundDiv(a, b, scale) ==
    IF a >= 0 THEN (2 * a * scale + b) \div (2 * b)
    ELSE 0 - ((2 * (0 - a) * scale + b) \div (2 * b))

\* SQL_ENRICHED: view events_enriched
EnrichedRow(r) ==
    r @@ [timestamp_ts |-> r.timestamp_utc,
          dt |-> DateOf(r.timestamp_utc),
          utm_source_coalesced |-> Coalesce(r.utm_source, "direct"),
          utm_medium_coalesced |-> Coalesce(r.utm_medium, "direct"),
          utm_campaign_coalesced |-> Coalesce(r.utm_campaign, "direct")]

\* COALESCE(price, total, 0.0) AS revenue
PurchasesRevenue(e) ==
    IF NotNull(e.price) THEN Val(e.price)
    ELSE IF NotNull(e.total) THEN Val(e.total)
    ELSE 0

\* WHERE t.client_id = p.client_id
\*   AND t.timestamp_ts BETWEEN p.timestamp_ts - INTERVAL '7 days' AND p.timestamp_ts
\*   AND t.utm_source IS NOT NULL
TouchCandidates(ev, i) ==
    {j \in DOMAIN ev :
        /\ NotNull(ev[j].client_id) /\ NotNull(ev[i].client_id)
        /\ ev[j].client_id = ev[i].client_id
        /\ NotNull(ev[j].timestamp_ts) /\ NotNull(ev[i].timestamp_ts)
        /\ Val(ev[j].timestamp_ts) >= Val(ev[i].timestamp_ts) - Days(7)
        /\ Val(ev[j].timestamp_ts) <= Val(ev[i].timestamp_ts)
        /\ NotNull(ev[j].utm_source)}

\* ORDER BY t.timestamp_ts ASC LIMIT 1 (0 when the subquery has no row)
FirstTouches(ev, i) ==
    LET C == TouchCandidates(ev, i)
    IN  IF C = {} THEN {0}
        ELSE {j \in C : \A k \in C : Val(ev[j].timestamp_ts) <= Val(ev[k].timestamp_ts)}

\* ORDER BY t.timestamp_ts DESC LIMIT 1
LastTouches(ev, i) ==
    LET C == TouchCandidates(ev, i)
    IN  IF C = {} THEN {0}
        ELSE {j \in C : \A k \in C : Val(ev[j].timestamp_ts) >= Val(ev[k].timestamp_ts)}

\* the rows the view purchase_attribution can give for the purchase at
\* position i: six scalar subqueries, each evaluated on its own
AnalysisAttributionRows(ev, i) ==
    {ev[i] @@ [revenue |-> PurchasesRevenue(ev[i]),
               first_utm_source |-> Scalar(ev, fs, "utm_source"),
               first_utm_medium |-> Scalar(ev, fm, "utm_medium"),
               first_utm_campaign |-> Scalar(ev, fc, "utm_campaign"),
               last_utm_source |-> Scalar(ev, ls, "utm_source"),
               last_utm_medium |-> Scalar(ev, lm, "utm_medium"),
               last_utm_campaign |-> Scalar(ev, lc, "utm_campaign")] :
        fs \in FirstTouches(ev, i), fm \in FirstTouches(ev, i), fc \in FirstTouches(ev, i),
        ls \in LastTouches(ev, i), lm \in LastTouches(ev, i), lc \in LastTouches(ev, i)}

RECURSIVE AnalysisAttributionFrom(_, _)
AnalysisAttributionFrom(ev, from) ==
    IF from > Len(ev) THEN {<<>>}
    ELSE IF ev[from].event_name = Some("purchase")
         THEN {<<r>> \o rest : r \in AnalysisAttributionRows(ev, from),
                               rest \in AnalysisAttributionFrom(ev, from + 1)}
         ELSE AnalysisAttributionFrom(ev, from + 1)

\* SQL_PURCHASE_ATTRIBUTION: the results an evaluation of the view can give
AnalysisPurchaseAttribution(ev) == AnalysisAttributionFrom(ev, 1)

\* SQL_DAILY_REVENUE: GROUP BY date ORDER BY date (the NULL date last);
\* avg_order_value is the fraction revenue / purchases
DailyRevenue(pa) ==
    LET D == {pa[k].dt : k \in DOMAIN pa}
        n == Cardinality(D)
        rank(d) == IF IsNull(d) THEN n
                   ELSE 1 + Cardinality({x \in D : NotNull(x) /\ Val(x) < Val(d)})
    IN  [k \in 1..n |->
            LET d == CHOOSE x \in D : rank(x) = k
                rows == {j \in DOMAIN pa : pa[j].dt = d}
                revenue == SumOver(rows, [j \in rows |-> pa[j].revenue])
            IN  [date |-> d,
                 purchases |-> Cardinality(rows),
                 revenue |-> revenue,
                 avg_order_value |-> [num |-> revenue, den |-> Cardinality(rows)]]]

---------------------------------------------------------------------------
(* SQL_SESSIONS_SIMPLE: view sessions_simple *)

\* CTE ordered: lag(timestamp_ts) OVER (PARTITION BY client_id ORDER BY
\* timestamp_ts), the rows with a client_id visited in the order p
OrderedRows(ev, p) ==
    LET rows == SelectIdx(ev, [i \in DOMAIN ev |-> NotNull(ev[i].client_id)], 1)
    IN  [k \in DOMAIN rows |->
            rows[p[k]] @@
            [prev_ts |-> IF k > 1 /\ rows[p[k - 1]].client_id = rows[p[k]].client_id
                         THEN rows[p[k - 1]].timestamp_ts
                         ELSE NULL]]

\* CTE flags
StartFlag(prev_ts, ts) ==
    IF IsNull(prev_ts) THEN 1
    ELSE IF NotNull(ts) /\ datediff_second(Val(prev_ts), Val(ts)) > 1800 THEN 1
    ELSE 0

\* CTE seq: the running sum of start_flag, the rows visited in the order q
SeqRows(rows, q) ==
    [k \in DOMAIN rows |->
        rows[q[k]] @@
        [session_seq |->
            SumOver({j \in 1..k : rows[q[j]].client_id = rows[q[k]].client_id},
                    [j \in 1..k |-> StartFlag(rows[q[j]].prev_ts, rows[q[j]].timestamp_ts)])]]

\* CTE session_bounds: GROUP BY client_id, session_seq
SessionBounds(sq) ==
    {LET T == {Val(sq[j].timestamp_ts) :
                  j \in {i \in DOMAIN sq : /\ sq[i].client_id = sq[k].client_id
                                           /\ sq[i].session_seq = sq[k].session_seq
                                           /\ NotNull(sq[i].timestamp_ts)}}
     IN  [client_id |-> sq[k].client_id,
          session_seq |-> sq[k].session_seq,
          session_id |-> <<Val(sq[k].client_id), "_session_", sq[k].session_seq>>,
          session_start |-> IF T = {} THEN NULL ELSE Some(Min(T)),
          session_end |-> IF T = {} THEN NULL ELSE Some(Max(T)),
          session_duration_seconds |->
              IF T = {} THEN NULL ELSE Some(datediff_second(Min(T), Max(T)))] :
        k \in DOMAIN sq}

\* x BETWEEN lo AND hi on nullable instants: true only when none is NULL
Between(x, lo, hi) ==
    /\ NotNull(x) /\ NotNull(lo) /\ NotNull(hi)
    /\ Val(lo) <= Val(x) /\ Val(x) <= Val(hi)

\* CTE session_last_utm for one session: max_by(e.utm_source, e.timestamp_ts)
\* over the joined events, any of them when several have the greatest
\* timestamp; NULL (no row, then the LEFT JOIN) when none joins
SessionLastUtm(ev, sb) ==
    LET J == {j \in DOMAIN ev :
                 /\ ev[j].client_id = sb.client_id
                 /\ Between(ev[j].timestamp_ts, sb.session_start, sb.session_end)
                 /\ NotNull(ev[j].utm_source)}
    IN  IF J = {} THEN {NULL}
        ELSE {ev[j].utm_source :
                 j \in {i \in J : \A k \in J :
                           Val(ev[i].timestamp_ts) >= Val(ev[k].timestamp_ts)}}

\* the final SELECT for the session bounds B
SessionsSelected(ev, B) ==
    {{sb @@ [session_last_utm |-> f[sb]] : sb \in B} :
        f \in {g \in [B -> UNION {SessionLastUtm(ev, sb) : sb \in B}] :
                  \A sb \in B : g[sb] \in SessionLastUtm(ev, sb)}}

\* the orders of PARTITION BY client_id ORDER BY timestamp_ts
WindowOrders(rows) ==
    {p \in Perms(DOMAIN rows) :
        \A k \in 1..(Len(rows) - 1) :
            \/ PartitionRank(rows, p[k]) < PartitionRank(rows, p[k + 1])
            \/ /\ rows[p[k]].client_id = rows[p[k + 1]].client_id
               /\ TsLE(rows[p[k]].timestamp_ts, rows[p[k + 1]].timestamp_ts)}

\* the results an evaluation of the view can give: each window sorts on its
\* own
SessionsSimple(ev) ==
    LET rows == SelectIdx(ev, [i \in DOMAIN ev |-> NotNull(ev[i].client_id)], 1)
    IN  UNION {UNION {SessionsSelected(ev, SessionBounds(SeqRows(OrderedRows(ev, p), q))) :
                         q \in WindowOrders(OrderedRows(ev, p))} :
                  p \in WindowOrders(rows)}

---------------------------------------------------------------------------
(* SQL_CONVERSION_BY_CHANNEL *)

\* CTE purchase_sessions: purchase_attribution LEFT JOIN sessions_simple; a
\* joined row is <<idx of the purchase, session_id, channel>>, with a NULL
\* session and the channel 'direct' for a purchase no session joins
PurchaseSessions(pa, ss) ==
    UNION {LET J == {x \in ss : /\ NotNull(pa[k].client_id)
                                /\ pa[k].client_id = x.client_id
                                /\ Between(pa[k].timestamp_ts, x.session_start,
                                           x.session_end)}
           IN  IF J = {} THEN {<<pa[k].idx, NULL, "direct">>}
               ELSE {<<pa[k].idx, Some(x.session_id),
                       Coalesce(x.session_last_utm, "direct")>> : x \in J} :
              k \in DOMAIN pa}

\* the rows of the final SELECT, before the ORDER BY: session_counts LEFT
\* JOIN the purchases per channel; counted is the group of joined purchase
\* rows behind the count, not an output column
ConversionRows(pa, s1, s2) ==
    LET channels == {Coalesce(x.session_last_utm, "direct") : x \in s1}
        ps == PurchaseSessions(pa, s2)
    IN  {LET n_sessions == Cardinality({x \in s1 :
                               Coalesce(x.session_last_utm, "direct") = c})
             counted == {j \in ps : j[3] = c}
             n_purchases == Cardinality(counted)
         IN  [channel |-> c,
              purchases |-> n_purchases,
              sessions |-> n_sessions,
              conversion_rate |->
                  IF n_sessions = 0 THEN NULL
                  ELSE Some(RoundDiv(n_purchases, n_sessions, 1000000)),
              counted |-> counted] :
            c \in channels}

\* ORDER BY conversion_rate DESC
ConversionByChannel(pa, s1, s2) ==
    SortedBy(ConversionRows(pa, s1, s2),
             LAMBDA a, b : IsNull(b.conversion_rate) \/
                           (NotNull(a.conversion_rate) /\
                            Val(a.conversion_rate) >= Val(b.conversion_rate)))

---------------------------------------------------------------------------
(* Device classification *)

\* A user-agent string is the set of the words it contains; a word matches
\* LIKE '%w%' when its lower-case form is w.
UAWords == {"iPad", "iPhone", "Android", "Mobile", "Windows", "Macintosh", "X11", "Safari"}

\* lower(w)
Lower(w) ==
    CASE w = "iPad" -> "ipad"
      [] w = "iPhone" -> "iphone"
      [] w = "Android" -> "android"
      [] w = "Mobile" -> "mobile"
      [] w = "Windows" -> "windows"
      [] w = "Macintosh" -> "macintosh"
      [] w = "X11" -> "x11"
      [] w = "Safari" -> "safari"

\* lower(user_agent) LIKE '%w%': not true for a NULL user_agent
LowerLike(user_agent, w) ==
    NotNull(user_agent) /\ w \in {Lower(x) : x \in Val(user_agent)}

\* a mutant: the 'mobile' rule is tried first
device_type_mobile_first(user_agent) ==
    CASE LowerLike(user_agent, "mobile") -> "mobile"
      [] LowerLike(user_agent, "ipad") -> "tablet"
      [] LowerLike(user_agent, "iphone") -> "mobile"
      [] LowerLike(user_agent, "android") -> "tablet"
      [] LowerLike(user_agent, "windows") \/ LowerLike(user_agent, "macintosh")
            \/ LowerLike(user_agent, "x11") -> "desktop"
      [] OTHER -> "unknown"

\* clean_and_analyze.py, view analytics_events_with_device: CASE ... END AS
\* device_type, the first WHEN that is true
device_type(user_agent) ==
    IF LowerLike(user_agent, "ipad") THEN "tablet"
    ELSE IF LowerLike(user_agent, "iphone") THEN "mobile"
    ELSE IF LowerLike(user_agent, "android") /\ LowerLike(user_agent, "mobile") THEN "mobile"
    ELSE IF LowerLike(user_agent, "android") THEN "tablet"
    ELSE IF LowerLike(user_agent, "mobile") THEN "mobile"
    ELSE IF LowerLike(user_agent, "windows") \/ LowerLike(user_agent, "macintosh")
               \/ LowerLike(user_agent, "x11") THEN "desktop"
    ELSE "unknown"

\* business_analysis.py, SQL_REVENUE_BY_DEVICE: CASE ... END AS device_type
revenue_device_type(user_agent) ==
    IF LowerLike(user_agent, "ipad") THEN "tablet"
    ELSE IF LowerLike(user_agent, "iphone") THEN "mobile"
    ELSE IF LowerLike(user_agent, "android") /\ LowerLike(user_agent, "mobile") THEN "mobile"
    ELSE IF LowerLike(user_agent, "android") THEN "tablet"
    ELSE IF LowerLike(user_agent, "mobile") THEN "mobile"
    ELSE IF LowerLike(user_agent, "windows") \/ LowerLike(user_agent, "macintosh")
               \/ LowerLike(user_agent, "x11") THEN "desktop"
    ELSE "unknown"

\* the results an evaluation of the view analytics_sessions can give
AnalyticsSessions(ev) ==
    UNION {{SessionsSelect(SequencedRows(FlaggedRows(WithLagRows(SessionInput(ev), p)), q)) :
               q \in SortOrders(FlaggedRows(WithLagRows(SessionInput(ev), p)))} :
              p \in SortOrders(SessionInput(ev))}

\* clean_and_analyze.py, sample query 5, before the ORDER BY:
\* analytics_events_with_device p JOIN analytics_sessions s ON p.client_id =
\* s.client_id GROUP BY device_type; revenue_per_session is the fraction
\* SUM(p.total) / COUNT(DISTINCT session_id); members is the group itself
\* (the user agents of its rows), not an output column
DeviceSampleRows(ev, ss) ==
    LET J == {pr \in (DOMAIN ev) \X ss :
                 NotNull(ev[pr[1]].client_id) /\ ev[pr[1]].client_id = pr[2].client_id}
    IN  {LET G == {pr \in J : device_type(ev[pr[1]].user_agent) = d}
             n_sessions == Cardinality({pr[2].session_id : pr \in G})
             revenue == SqlSum(G, [pr \in G |-> ev[pr[1]].total])
         IN  [device_type |-> d,
              sessions |-> n_sessions,
              revenue |-> revenue,
              revenue_per_session |->
                  IF IsNull(revenue) THEN NULL
                  ELSE Some([num |-> Val(revenue), den |-> n_sessions]),
              members |-> {ev[pr[1]].user_agent : pr \in G}] :
            d \in {device_type(ev[pr[1]].user_agent) : pr \in J}}

\* ORDER BY revenue_per_session DESC
DeviceSampleResult(ev, ss) ==
    SortedBy(DeviceSampleRows(ev, ss),
             LAMBDA a, b : IsNull(b.revenue_per_session) \/
                 (NotNull(a.revenue_per_session) /\
                  Val(a.revenue_per_session).num * Val(b.revenue_per_session).den
                      >= Val(b.revenue_per_session).num * Val(a.revenue_per_session).den))

\* SQL_REVENUE_BY_DEVICE before the ORDER BY: purchase_attribution p LEFT
\* JOIN events_enriched e ON client_id and timestamp_ts, GROUP BY
\* device_type.  A purchase counts once for every event it joins.
RevenueByDeviceRows(pa, ev) ==
    LET joined(k) == {j \in DOMAIN ev :
                         /\ NotNull(pa[k].client_id) /\ pa[k].client_id = ev[j].client_id
                         /\ NotNull(pa[k].timestamp_ts)
                         /\ pa[k].timestamp_ts = ev[j].timestamp_ts}
        times(k) == IF joined(k) = {} THEN 1 ELSE Cardinality(joined(k))
    IN  {LET G == {k \in DOMAIN pa : revenue_device_type(pa[k].user_agent) = d}
             n_sessions == Cardinality({<<pa[k].client_id, pa[k].dt>> :
                               k \in {i \in G : NotNull(pa[i].client_id)}})
             revenue == SumOver(G, [k \in G |-> times(k) * pa[k].revenue])
         IN  [device_type |-> d,
              sessions |-> n_sessions,
              revenue |-> revenue,
              revenue_per_session |->
                  IF n_sessions = 0 THEN NULL
                  ELSE Some(RoundDiv(revenue, n_sessions, 100)),
              members |-> {pa[k].user_agent : k \in G}] :
            d \in {revenue_device_type(pa[k].user_agent) : k \in DOMAIN pa}}

\* ORDER BY revenue DESC
RevenueByDevice(pa, ev) ==
    SortedBy(RevenueByDeviceRows(pa, ev), LAMBDA a, b : a.revenue >= b.revenue)

---------------------------------------------------------------------------
(* The two scripts as state machines *)

\* clean_and_analyze.py, sample query 5 (the last query that is modelled;
\* the script then exports its views and exits)
DeviceSample ==
    /\ pc = "done"
    /\ \E ss \in AnalyticsSessions(events) :
           device_sample' \in DeviceSampleResult(events, ss)
    /\ pc' = "exited"
    /\ UNCHANGED <<events, dropped_dupes, sess, sessions, attribution,
                   channel_last, channel_first, recon, mvars, avars>>

\* main: SQL_CREATE_EVENTS, SQL_ENRICHED, SQL_PURCHASE_ATTRIBUTION
AnalysisLoad ==
    /\ apc = "start"
    /\ pc = "exited"
    /\ a_events' = [i \in DOMAIN events |-> EnrichedRow(events[i])]
    /\ apc' = "loaded"
    /\ UNCHANGED <<a_attribution, a_daily, a_channel_last, a_channel_first,
                   a_conversion, a_device, nonanalysis>>

\* daily_rev
AnalysisDaily ==
    /\ apc = "loaded"
    /\ \E pa \in AnalysisPurchaseAttribution(a_events) :
           /\ a_attribution' = pa
           /\ a_daily' = DailyRevenue(pa)
    /\ apc' = "daily"
    /\ UNCHANGED <<a_events, a_channel_last, a_channel_first, a_conversion,
                   a_device, nonanalysis>>

\* ch_last (SQL_CHANNEL_LAST is the text of the part 2 rollup)
AnalysisChannelLast ==
    /\ apc = "daily"
    /\ \E pa \in AnalysisPurchaseAttribution(a_events) :
           /\ a_attribution' = pa
           /\ a_channel_last' \in ChannelRollup(pa, "last_utm_source")
    /\ apc' = "ch_last"
    /\ UNCHANGED <<a_events, a_daily, a_channel_first, a_conversion, a_device,
                   nonanalysis>>

\* ch_first
AnalysisChannelFirst ==
    /\ apc = "ch_last"
    /\ \E pa \in AnalysisPurchaseAttribution(a_events) :
           /\ a_attribution' = pa
           /\ a_channel_first' \in ChannelRollup(pa, "first_utm_source")
    /\ apc' = "ch_first"
    /\ UNCHANGED <<a_events, a_daily, a_channel_last, a_conversion, a_device,
                   nonanalysis>>

\* SQL_SESSIONS_SIMPLE, conv_by_channel: the query reads sessions_simple
\* twice and purchase_attribution once
AnalysisConversion ==
    /\ apc = "ch_first"
    /\ \E pa \in AnalysisPurchaseAttribution(a_events) :
       \E s1 \in SessionsSimple(a_events) :
       \E s2 \in SessionsSimple(a_events) :
           /\ a_attribution' = pa
           /\ a_conversion' \in ConversionByChannel(pa, s1, s2)
    /\ apc' = "conversion"
    /\ UNCHANGED <<a_events, a_daily, a_channel_last, a_channel_first, a_device,
                   nonanalysis>>

\* revenue_by_device
AnalysisRevenueByDevice ==
    /\ apc = "conversion"
    /\ \E pa \in AnalysisPurchaseAttribution(a_events) :
           /\ a_attribution' = pa
           /\ a_device' \in RevenueByDevice(pa, a_events)
    /\ apc' = "device"
    /\ UNCHANGED <<a_events, a_daily, a_channel_last, a_channel_first,
                   a_conversion, nonanalysis>>

AnalysisNext ==
    \/ AnalysisLoad
    \/ AnalysisDaily
    \/ AnalysisChannelLast
    \/ AnalysisChannelFirst
    \/ AnalysisConversion
    \/ AnalysisRevenueByDevice

\* clean_and_analyze.py and then business_analysis.py
DeviceNext ==
    \/ Next
    \/ DeviceSample
    \/ AnalysisNext

AnalysisStart ==
    /\ apc = "start"
    /\ a_events = <<>>
    /\ a_attribution = <<>>
    /\ a_daily = <<>>
    /\ a_channel_last = <<>>
    /\ a_channel_first = <<>>
    /\ a_conversion = <<>>
    /\ a_device = <<>>

\* rows for the analysis: touches, purchases whose price and total differ or
\* are missing or negative, a purchase without identity
AnalysisInputs ==
    { View(Some("U1"), T0 - Seconds(60), Url("ads", "cpc", "c1")),
      View(Some("U2"), T0, Url("mail", "email", "c2")),
      View(Some("U1"), T0, PlainUrl),
      Purchase(Some("U1"), T0, PlainUrl, Payload(Some(10), Some(2))),
      Purchase(Some("U1"), T0, PlainUrl, Payload(Some(-5), Some(1))),
      Purchase(Some("U2"), T0 + Seconds(60), PlainUrl, Payload(Some(7), NULL)),
      Purchase(NULL, T0, PlainUrl, Payload(Some(5), Some(1))) }

\* every user agent over the words
UserAgents == {NULL} \cup {Some(S) : S \in SUBSET UAWords}

InitAnalysis ==
    /\ MonitorOff
    /\ device_sample = <<>>
    /\ AnalysisStart
    /\ \E rows \in SeqsUpTo(AnalysisInputs, MaxEvents) : PipelineExited(rows)

\* one purchase, sent from any user agent
InitDevice ==
    /\ MonitorOff
    /\ device_sample = <<>>
    /\ AnalysisStart
    /\ pc = "loaded"
    /\ \E ua \in UserAgents :
           events = Load(<<RawRow("f1", Iso(T0), Some("purchase"),
                                  Payload(Some(10), Some(1)), PlainUrl, NULL,
                                  Some("U1"), ua)>>)
    /\ dropped_dupes = 0
    /\ sess = <<>>
    /\ sessions = {}
    /\ attribution = <<>>
    /\ channel_last = <<>>
    /\ channel_first = <<>>
    /\ recon = [raw_revenue |-> 0, attributed_revenue |-> 0]

SpecAnalysis == InitAnalysis /\ [][AnalysisNext]_vars

SpecDevice == InitDevice /\ [][DeviceNext]_vars

AnalysisDone == apc = "device"

---------------------------------------------------------------------------
(* Properties of the device classification and of the business analysis *)

\* what the classification of one user agent must be
ClassOk(user_agent, class) ==
    /\ class \in {"desktop", "mobile", "tablet", "unknown"}
    /\ LowerLike(user_agent, "ipad") => class = "tablet"
    /\ (\A w \in {"ipad", "iphone", "android", "mobile", "windows",
                  "macintosh", "x11"} : ~LowerLike(user_agent, w))
           => class = "unknown"

\* C17: both queries that classify devices put every user agent in exactly
\* one of desktop, mobile, tablet, unknown; a user agent with 'ipad' in its
\* lower-case form is a tablet even when it also has 'mobile' or 'iphone'; a
\* NULL user agent and one no rule matches are unknown; and the rule list of
\* clean_and_analyze.py and the one of business_analysis.py give the same
\* class to the same user agent.
C17_DeviceClassification ==
    /\ \A k \in DOMAIN device_sample : \A ua \in device_sample[k].members :
           /\ ClassOk(ua, device_sample[k].device_type)
           /\ \A j \in DOMAIN device_sample :
                  ua \in device_sample[j].members => j = k
    /\ \A k \in DOMAIN a_device : \A ua \in a_device[k].members :
           /\ ClassOk(ua, a_device[k].device_type)
           /\ \A j \in DOMAIN a_device : ua \in a_device[j].members => j = k
    /\ \A k \in DOMAIN device_sample : \A j \in DOMAIN a_device :
           (device_sample[k].members \cap a_device[j].members # {})
               => device_sample[k].device_type = a_device[j].device_type

\* an iPad that also says iPhone and Mobile is a tablet in both results
C17_Witness ==
    /\ AnalysisDone
    /\ \E k \in DOMAIN device_sample :
           /\ device_sample[k].device_type = "tablet"
           /\ Some({"iPad", "iPhone", "Mobile"}) \in device_sample[k].members
    /\ \E j \in DOMAIN a_device :
           /\ a_device[j].device_type = "tablet"
           /\ Some({"iPad", "iPhone", "Mobile"}) \in a_device[j].members

\* C18: in the conversion-by-channel result every row's rate is its
\* purchases over its sessions (NULL when it has no session), and every
\* purchase is counted in exactly one row.
C18_ConversionByChannel ==
    apc \in {"conversion", "device"} =>
        /\ \A k \in DOMAIN a_conversion :
               a_conversion[k].conversion_rate =
                   (IF a_conversion[k].sessions = 0 THEN NULL
                    ELSE Some(RoundDiv(a_conversion[k].purchases,
                                       a_conversion[k].sessions, 1000000)))
        /\ \A n \in DOMAIN a_attribution :
               Cardinality({c \in UNION {a_conversion[k].counted : k \in DOMAIN a_conversion} :
                               c[1] = a_attribution[n].idx}) = 1

\* C19: the revenue of the purchase_attribution rows of part 3 adds up to
\* the sum of COALESCE(total, 0) over the purchase events.
C19_AnalysisRevenueReconciles ==
    apc \notin {"off", "start", "loaded"} =>
        SumOver(DOMAIN a_attribution,
                [k \in DOMAIN a_attribution |-> a_attribution[k].revenue])
            = RawRevenue(a_events)

\* C20: no event has a negative total and no attributed purchase a negative
\* revenue.
C20_AmountsNonNegative ==
    /\ \A i \in DOMAIN events :
           ("total" \in DOMAIN events[i] /\ NotNull(events[i].total))
               => Val(events[i].total) >= 0
    /\ \A k \in DOMAIN attribution : attribution[k].revenue >= 0

---------------------------------------------------------------------------
(* Properties of the session sequence and of ties *)

\* C21: within one identity distinct sessions have distinct non-negative
\* sequence numbers that grow with the session start, the session output has
\* one record per (identity, sequence), and session_id is a function of
\* (identity, sequence) that no two sessions share.
C21_SessionSequence ==
    SessionsDone =>
        /\ \A a \in sessions : a.session_seq >= 0
        /\ \A a, b \in sessions :
              (a.client_id = b.client_id /\ a.session_seq < b.session_seq) =>
                  /\ NotNull(a.session_start) /\ NotNull(b.session_start)
                  /\ Val(a.session_start) < Val(b.session_start)
        /\ \A a, b \in sessions :
              (a.client_id = b.client_id /\ a.session_seq = b.session_seq) => a = b
        /\ \A a, b \in sessions :
              a.session_id = b.session_id <=>
                  (a.client_id = b.client_id /\ a.session_seq = b.session_seq)

\* C22: events of one identity that carry the same timestamp are in the same
\* session, and a row whose predecessor has its own timestamp does not start
\* a session.
C22_TiedEventsShareSession ==
    /\ pc \in {"flagged", "sequenced"} =>
           \A k \in DOMAIN sess :
               (NotNull(sess[k].prev_ts) /\ sess[k].prev_ts = sess[k].timestamp_utc)
                   => sess[k].new_session_flag = 0
    /\ SessionsDone =>
           \A a, b \in sessions :
               (/\ a.client_id = b.client_id
                /\ NotNull(a.timestamp_utc)
                /\ a.timestamp_utc = b.timestamp_utc)
                   => a.session_seq = b.session_seq

---------------------------------------------------------------------------
(* Properties of the touch fields *)

\* the three fields of one touch ("first" or "last") of attribution row r are
\* those of one event of its window, or all NULL when the window is empty
OneTouchEvent(r, touch) ==
    LET C == {j \in DOMAIN events : InWindow(events[j], r)}
        source == r[touch \o "_utm_source"]
        medium == r[touch \o "_utm_medium"]
        campaign == r[touch \o "_utm_campaign"]
    IN  IF C = {}
        THEN IsNull(source) /\ IsNull(medium) /\ IsNull(campaign)
        ELSE \E j \in C : /\ source = events[j].utm_source
                          /\ medium = events[j].utm_medium
                          /\ campaign = events[j].utm_campaign

\* C23: for every attributed purchase the three first-touch fields come from
\* one candidate event and so do the three last-touch fields, also when
\* candidates tie on the timestamp, and first_utm_source is NULL exactly when
\* last_utm_source is.
C23_TouchFieldsFromOneEvent ==
    AttributionDone =>
        \A k \in DOMAIN attribution :
            /\ OneTouchEvent(attribution[k], "first")
            /\ OneTouchEvent(attribution[k], "last")
            /\ IsNull(attribution[k].first_utm_source)
                   <=> IsNull(attribution[k].last_utm_source)

\* the part of C23 that holds: the two sources are NULL together
C23_SourcesNullTogether ==
    AttributionDone =>
        \A k \in DOMAIN attribution :
            IsNull(attribution[k].first_utm_source)
                <=> IsNull(attribution[k].last_utm_source)

---------------------------------------------------------------------------
(* Properties of the duplicate rate *)

\* C24: on the events the pipeline has deduplicated the monitor's duplicate
\* rate is 0 and its duplicate-rate alert is never raised.
C24_NoDuplicatesAfterDedup ==
    /\ mpc \notin {"start", "raised"} => dup_rate(m_events).num = 0
    /\ \A k \in DOMAIN alerts : alerts[k] # Alert("WARN", "Duplicate rate high")

=============================================================================
